---------------------------- MODULE Spec2Model ----------------------------
(***************************************************************************)
(* Vamana graph construction (rust/src/index/vector/vamana.rs):            *)
(* VamanaBuilder::try_init, find_medoid, index_pass, try_new,              *)
(* greedy_search and robust_prune.                                         *)
(*                                                                         *)
(* Vectors are points <<x, y>> with small natural coordinates, so every    *)
(* squared L2 distance is a small integer that f32 represents exactly.     *)
(* alpha is kept in halves (alphaH = 2 * alpha), so alpha * d <= e is the  *)
(* integer comparison alphaH * d <= 2 * e; 1.0 and 1.5 are exact in f32.   *)
(***************************************************************************)
EXTENDS Integers, Sequences, FiniteSets, TLC

\* ------------------------------------------------------------------ bounds
MaxN == 3
MaxR == 2
MaxL == 2
MaxK == 2
MaxExtraPasses == 1

\* alpha = 1.0 of the first pass (try_new), in halves.
AlphaOne == 2
\* k = 1 of the search made by index_pass.
PassK == 1
\* try_new runs two passes.
NumPasses == 2

VARIABLES
    n,          \* number of rows / vertices (total, vertices.len())
    vectors,    \* id -> point, the vector data
    vertices,   \* id -> neighbor list (Vertex.neighbors), a sequence of ids
    r,          \* degree cap R
    l,          \* search list size L
    alphaH,     \* alpha in halves
    pc,         \* position of the running operation
    initI,      \* try_init: loop index i
    medoid,     \* try_new: the medoid found after try_init
    passNo,     \* number of the running pass (1, 2, ...)
    processed,  \* index_pass: ids already iterated in this pass
    stepId,     \* index_pass: id processed by the latest step
    pId,        \* robust_prune: target id
    pV,         \* robust_prune: the candidate set passed in
    pst,        \* robust_prune: working state (visited, heap, out, status)
    gsStart,    \* greedy_search: start
    gsQuery,    \* greedy_search: query point
    gsK,        \* greedy_search: k
    gsHeap,     \* greedy_search: heap (set of VertexWithDistance)
    gsVisited,  \* greedy_search: visited
    gsCand,     \* greedy_search: candidates (BTreeMap distance -> id)
    gsP,        \* greedy_search: the popped vertex being expanded
    gsIdx,      \* greedy_search: position in p's neighbor list
    gsResult,   \* greedy_search: the returned id list and visited set
    vertexId,   \* position -> Vertex.id
    rowId,      \* position -> Vertex.aux_data.row_id
    fSelf,      \* Field::intersection: the receiver
    fOther,     \* Field::intersection: the argument
    fOut,       \* Field::intersection: the returned Result
    setId,      \* Field::set_id: the receiver, the arguments and their values at the call
    firstRun,   \* the graph and medoid an earlier build of the same inputs returned
    step        \* index_pass: the tasks and write-backs of the step under way

vars == <<n, vectors, vertices, r, l, alphaH, pc, initI, medoid, passNo,
          processed, stepId, pId, pV, pst, gsStart, gsQuery, gsK, gsHeap,
          gsVisited, gsCand, gsP, gsIdx, gsResult, vertexId, rowId, firstRun, step,
          fSelf, fOther, fOut, setId>>

\* ----------------------------------------------------------------- helpers
Range(s) == {s[x] : x \in DOMAIN s}

Ids(m) == 0 .. (m - 1)

\* The pool the input vectors are drawn from: three collinear points and one
\* off the line, so that equal distances, a target between its candidates and
\* a right angle all occur.
Points == {<<0, 0>>, <<1, 0>>, <<2, 0>>, <<0, 1>>}

Alphas == {2, 3}

Min(S) == CHOOSE x \in S : \A y \in S : x <= y

Max(S) == CHOOSE x \in S : \A y \in S : x >= y

\* All orderings of a finite set as sequences without repetition.
Perms(S) ==
    {s \in [1 .. Cardinality(S) -> S] : \A a, b \in DOMAIN s : a # b => s[a] # s[b]}

RECURSIVE SortedSeq(_)
SortedSeq(S) == IF S = {} THEN <<>> ELSE <<Min(S)>> \o SortedSeq(S \ {Min(S)})

IsDistinct(s) == \A a, b \in DOMAIN s : a # b => s[a] # s[b]

\* l2_distance_simd on two points: the squared Euclidean distance.
L2(a, b) == (a[1] - b[1]) * (a[1] - b[1]) + (a[2] - b[2]) * (a[2] - b[2])

\* Graph::distance / distance(): distance between the vectors at two indices.
Distance(vecs, a, b) == L2(vecs[a], vecs[b])

\* distance_to: distance from a query vector to the vector at idx.
DistanceTo(vecs, q, idx) == L2(q, vecs[idx])

\* Graph::neighbors: the ids of the neighbor list, in list order.
Neighbors(g, id) == g[id]

\* Values of the variables an operation does not use.
NoPrune == [visited |-> {}, heap |-> {}, out |-> <<>>, status |-> "idle"]

NoResult == [ids |-> <<>>, visited |-> {}]

NoRun == [built |-> FALSE, vertices |-> <<>>, medoid |-> 0]

NoStep == [phase |-> "idle", pending |-> {}, reading |-> <<>>, results |-> <<>>,
           written |-> <<>>, steps |-> 0, start |-> <<>>, targets |-> <<>>]

\* Line 107: the id given to the vertex made from row i.
VertexId(i) == i

\* Lines 92-96, 103-109: the row id of the vertex made from row i: the i-th
\* value of the row id column of the scan.
RowId(rowIds, i) == rowIds[i + 1]

\* The row id column of a dataset of m rows written in one piece (row id =
\* position), and one of a dataset whose row ids are neither the positions
\* nor ascending.
PositionRowIds(m) == [k \in 1 .. m |-> k - 1]

ScatteredRowIds(m) == [k \in 1 .. m |-> IF k % 2 = 1 THEN 2 * k + 5 ELSE 2 * k + 1]

NoField == [name |-> "", type |-> "", nullable |-> FALSE, children |-> <<>>]

NoOutcome == [ok |-> FALSE, field |-> NoField]

\* No set_id call: an id-less leaf and zero arguments.
NoIdField == [id |-> -1, parent_id |-> -1, children |-> <<>>]

NoSetId == [self |-> NoIdField, parent_id |-> -1, id_seed |-> 0,
            self0 |-> NoIdField, seed0 |-> 0]

FieldIdle ==
    fSelf = NoField /\ fOther = NoField /\ fOut = NoOutcome /\ setId = NoSetId

BuildIdle ==
    /\ initI = 0 /\ medoid = 0 /\ passNo = 0 /\ processed = {} /\ stepId = 0
    /\ firstRun = NoRun /\ step = NoStep

PruneIdle == pId = 0 /\ pV = {} /\ pst = NoPrune

SearchIdle ==
    /\ gsStart = 0 /\ gsQuery = <<0, 0>> /\ gsK = 0 /\ gsHeap = {}
    /\ gsVisited = {} /\ gsCand = <<>> /\ gsP = 0 /\ gsIdx = 0
    /\ gsResult = NoResult

\* BinaryHeap<VertexWithDistance>::pop order: an entry with key d1 leaves the
\* heap before every entry with key d2 when d1 < d2 (a min-heap on distance);
\* entries with equal keys leave in no fixed order.
HeapBefore(d1, d2) == d1 < d2

\* ------------------------------------------------------------- robust_prune
\* Lines 410-421: visited.remove(id); visited.extend(neighbors(id)); one heap
\* entry per member of visited.  The heap is kept as the set of ids it holds;
\* the key of entry p is Distance(id, p).
MutPruneEntryNoNeighbors(g, id, V) ==
    LET vis == V \ {id}
    IN  [visited |-> vis, heap |-> vis, out |-> <<>>, status |-> "loop"]

MutPruneEntryKeepSelf(g, id, V) ==
    LET vis == V \cup Range(Neighbors(g, id))
    IN  [visited |-> vis, heap |-> vis, out |-> <<>>, status |-> "loop"]

MutPruneEntryHeapFirst(g, id, V) ==
    LET vis == (V \ {id}) \cup Range(Neighbors(g, id))
    IN  [visited |-> vis, heap |-> V \ {id}, out |-> <<>>, status |-> "loop"]

PruneEntry(g, id, V) ==
    LET vis == (V \ {id}) \cup Range(Neighbors(g, id))
    IN  [visited |-> vis, heap |-> vis, out |-> <<>>, status |-> "loop"]

\* Lines 428-433: pop until the popped entry is a member of visited.  The heap
\* yields entries by ascending distance; among equal distances the order is
\* not fixed (entries were pushed in HashSet iteration order).  The result is
\* the set of possible [p, heap] pairs; it is empty when the heap runs out
\* before a member is found (heap.pop().unwrap() on None).
HeapPops(vecs, id, st) ==
    LET key(x)  == Distance(vecs, id, x)
        members == st.heap \cap st.visited
        firsts  == {x \in members : \A y \in members : ~HeapBefore(key(y), key(x))}
    IN  UNION {
          LET before == {x \in st.heap \ st.visited : HeapBefore(key(x), key(p))}
              ties   == {x \in st.heap \ st.visited : key(x) = key(p)}
          IN  {[p |-> p, heap |-> st.heap \ ({p} \cup before \cup T)] : T \in SUBSET ties}
          : p \in firsts}

\* Lines 440-447: the members pv of visited with alpha * dist(p, pv) <= dist(id, pv).
MutToRemoveAlphaOnQuery(vecs, id, p, vis, aH) ==
    {pv \in vis : 2 * Distance(vecs, p, pv) <= aH * Distance(vecs, id, pv)}

MutToRemoveStrict(vecs, id, p, vis, aH) ==
    {pv \in vis : aH * Distance(vecs, p, pv) < 2 * Distance(vecs, id, pv)}

ToRemove(vecs, id, p, vis, aH) ==
    {pv \in vis : aH * Distance(vecs, p, pv) <= 2 * Distance(vecs, id, pv)}

\* Line 436: the cap test made after the push.
CapReached(out, rr) == Len(out) >= rr

\* One evaluation of the loop condition and, if it holds, of the loop body
\* (lines 427-451).  Returns the set of possible next working states.
PruneIter(vecs, id, aH, rr, st) ==
    IF st.visited = {}
    THEN {[st EXCEPT !.status = "done"]}
    ELSE IF HeapPops(vecs, id, st) = {}
    THEN {[st EXCEPT !.status = "panic"]}
    ELSE {
        LET out2 == Append(st.out, pop.p)
        IN  IF CapReached(out2, rr)
            THEN [visited |-> st.visited, heap |-> pop.heap, out |-> out2,
                  status |-> "done"]
            ELSE [visited |-> st.visited \ ToRemove(vecs, id, pop.p, st.visited, aH),
                  heap |-> pop.heap, out |-> out2, status |-> "loop"]
        : pop \in HeapPops(vecs, id, st)}

\* The working states in which the loop can end, from working state st.
RECURSIVE PruneFinals(_, _, _, _, _)
PruneFinals(vecs, id, aH, rr, st) ==
    IF st.status # "loop"
    THEN {st}
    ELSE UNION {PruneFinals(vecs, id, aH, rr, s2) : s2 \in PruneIter(vecs, id, aH, rr, st)}

\* robust_prune(graph, id, visited, alpha, r): the lists it can return.
RobustPrune(g, vecs, id, V, aH, rr) ==
    {f.out : f \in {x \in PruneFinals(vecs, id, aH, rr, PruneEntry(g, id, V)) :
                      x.status = "done"}}

\* ------------------------------------------------------------ greedy_search
\* candidates: BTreeMap<OrderedFloat<f32>, usize>, a function from the
\* distances it holds as keys to ids.
EmptyMap == <<>>

\* BTreeMap::insert: the value of an existing key is replaced.
CandInsert(c, d, id) == [k \in DOMAIN c \cup {d} |-> IF k = d THEN id ELSE c[k]]

\* BTreeMap::pop_last: the entry with the largest key is removed.
MutCandPopFirst(c) == [k \in DOMAIN c \ {Min(DOMAIN c)} |-> c[k]]

CandPopLast(c) == [k \in DOMAIN c \ {Max(DOMAIN c)} |-> c[k]]

\* Lines 382-384: pop_last when the map holds more than search_size entries.
CandCap(c, ss) == IF Cardinality(DOMAIN c) > ss THEN CandPopLast(c) ELSE c

\* candidates.iter().take(k): the ids of the k smallest keys, in key order.
RECURSIVE CandTake(_, _)
CandTake(c, k) ==
    IF k = 0 \/ DOMAIN c = {}
    THEN <<>>
    ELSE LET d == Min(DOMAIN c)
         IN  <<c[d]>> \o CandTake([x \in DOMAIN c \ {d} |-> c[x]], k - 1)

\* The ids held as values of the map.
CandIds(c) == {c[d] : d \in DOMAIN c}

\* Lines 355-366: the start vertex is pushed onto the heap and inserted into
\* candidates; visited is empty.
GsEntry(vecs, start, q) ==
    LET dist == DistanceTo(vecs, q, start)
    IN  [heap |-> {[id |-> start, distance |-> dist]},
         visited |-> {},
         cand |-> CandInsert(EmptyMap, dist, start)]

\* heap.pop() removes the popped entry from the heap.
MutHeapPeek(heap, p) == heap

HeapRemove(heap, p) == heap \ {p}

\* heap.pop(): the entries that can be popped next.
GsHeapTop(heap) == {p \in heap : \A o \in heap : ~HeapBefore(o.distance, p.distance)}

\* Line 370: the popped entry is skipped.
GsSkip(st, p) == p.id \in st.visited \/ p.distance \notin DOMAIN st.cand

\* Lines 375-384: one neighbor of the expanded vertex.  A visited neighbor is
\* passed over; any other is inserted into candidates, which is then capped.
\* Nothing is pushed onto the heap.
GsNeighborStep(vecs, q, ss, nb, st) ==
    IF nb \in st.visited
    THEN st
    ELSE [st EXCEPT !.cand = CandCap(CandInsert(st.cand, DistanceTo(vecs, q, nb), nb), ss)]

\* Lines 374-385: the neighbors of p from position idx on, in list order.
RECURSIVE GsNeighborsFrom(_, _, _, _, _, _, _)
GsNeighborsFrom(g, vecs, q, ss, p, idx, st) ==
    IF idx > Len(Neighbors(g, p))
    THEN st
    ELSE GsNeighborsFrom(g, vecs, q, ss, p, idx + 1,
                         GsNeighborStep(vecs, q, ss, Neighbors(g, p)[idx], st))

\* Lines 367-386: the while loop, from working state st to the states in
\* which the heap is empty.
RECURSIVE GsLoop(_, _, _, _, _)
GsLoop(g, vecs, q, ss, st) ==
    IF st.heap = {}
    THEN {st}
    ELSE UNION {
        LET popped == [st EXCEPT !.heap = HeapRemove(st.heap, p)]
        IN  IF GsSkip(st, p)
            THEN GsLoop(g, vecs, q, ss, popped)
            ELSE GsLoop(g, vecs, q, ss,
                        GsNeighborsFrom(g, vecs, q, ss, p.id, 1,
                                        [popped EXCEPT !.visited = st.visited \cup {p.id}]))
        : p \in GsHeapTop(st.heap)}

\* Lines 388-391: the returned pair.
GsReturnValue(st, k) == [ids |-> CandTake(st.cand, k), visited |-> st.visited]

\* greedy_search(start, query, k, search_size): the pairs it can return.
GreedySearch(g, vecs, start, q, k, ss) ==
    {GsReturnValue(f, k) : f \in GsLoop(g, vecs, q, ss, GsEntry(vecs, start, q))}

\* ------------------------------------------------------------------ try_init
\* Lines 116-126: the neighbor ids of vertex i after the sampling loop: the
\* ids already in its list, filled up with sampled ids other than i until
\* there are r of them.  Empty when no such set exists (the loop never ends).
MutSampledSetsOneShort(g, m, rr, i) ==
    LET have == Range(Neighbors(g, i))
    IN  IF Cardinality(have) >= rr - 1
        THEN {have}
        ELSE {S \in SUBSET (have \cup (Ids(m) \ {i})) :
                 have \subseteq S /\ Cardinality(S) = rr - 1}

SampledSets(g, m, rr, i) ==
    LET have == Range(Neighbors(g, i))
    IN  IF Cardinality(have) >= rr
        THEN {have}
        ELSE {S \in SUBSET (have \cup (Ids(m) \ {i})) :
                 have \subseteq S /\ Cardinality(S) = rr}

\* Lines 133-138: i is pushed onto the list of every member of S.
MutNoReverseEdges(g, S, i) == g

PushReverseEdges(g, S, i) ==
    [v \in DOMAIN g |-> IF v \in S THEN Append(g[v], i) ELSE g[v]]

\* Lines 128-138: vertex i gets the ids of S in the set's iteration order
\* (lst), then the reverse edges are pushed.
ConnectVertex(g, S, lst, i) == PushReverseEdges([g EXCEPT ![i] = lst], S, i)

\* ------------------------------------------------------------ f32 arithmetic
\* find_medoid computes in f32 (Float32Array).  A non-negative f32 is the
\* record [m, e] of value m * 2^e with 2^23 <= m < 2^24, or zero.  Every
\* intermediate integer stays below 2^31.
Pow2(k) == 2 ^ k

RECURSIVE BitLen(_)
BitLen(v) == IF v = 0 THEN 0 ELSE 1 + BitLen(v \div 2)

F32Zero == [m |-> 0, e |-> 0]

\* Round to nearest, ties to even: the f32 nearest to v * 2^e, where sticky
\* says that the exact value lies strictly above v * 2^e (and below
\* (v + 1) * 2^e).
F32Round(v, e, sticky) ==
    IF v = 0
    THEN F32Zero
    ELSE LET b == BitLen(v)
         IN  IF b <= 24
             THEN [m |-> v * Pow2(24 - b), e |-> e - (24 - b)]
             ELSE LET sh   == b - 24
                      q    == v \div Pow2(sh)
                      rem  == v % Pow2(sh)
                      half == Pow2(sh - 1)
                      up   == \/ rem > half
                              \/ rem = half /\ (sticky \/ q % 2 = 1)
                      m    == IF up THEN q + 1 ELSE q
                  IN  IF m = Pow2(24)
                      THEN [m |-> Pow2(23), e |-> e + sh + 1]
                      ELSE [m |-> m, e |-> e + sh]

\* The f32 quotient s / d of two integers held exactly in f32 (0 <= s,
\* 1 <= d <= 16).
F32Div(s, d) ==
    IF s = 0
    THEN F32Zero
    ELSE LET k == 30 - BitLen(s)
             v == s * Pow2(k)
         IN  F32Round(v \div d, -k, v % d # 0)

\* The magnitude of the f32 difference c - x of an f32 c (not above 2^24) and
\* an integer x held exactly in f32.
F32AbsDiff(c, x) ==
    IF c.m = 0
    THEN F32Round(x, 0, FALSE)
    ELSE LET d == x * Pow2(-c.e) - c.m
         IN  F32Round(IF d < 0 THEN -d ELSE d, c.e, FALSE)

\* The f32 product f * f: the 48-bit square of the mantissa, in two halves.
F32Square(f) ==
    IF f.m = 0
    THEN F32Zero
    ELSE LET a   == f.m \div Pow2(12)
             b   == f.m % Pow2(12)
             t   == 2 * a * b
             lo0 == (t % Pow2(12)) * Pow2(12) + b * b
             hi  == a * a + t \div Pow2(12) + lo0 \div Pow2(24)
             lo  == lo0 % Pow2(24)
         IN  F32Round(hi * Pow2(6) + lo \div Pow2(18), 2 * f.e + 18, lo % Pow2(18) # 0)

\* The f32 sum of two non-negative f32.
F32Add(x, y) ==
    IF x.m = 0 THEN y
    ELSE IF y.m = 0 THEN x
    ELSE LET big   == IF x.e >= y.e THEN x ELSE y
             small == IF x.e >= y.e THEN y ELSE x
             k     == big.e - small.e
         IN  IF k <= 6
             THEN F32Round(big.m * Pow2(k) + small.m, small.e, FALSE)
             ELSE IF k > 30
             THEN F32Round(big.m * Pow2(6), big.e - 6, TRUE)
             ELSE F32Round(big.m * Pow2(6) + small.m \div Pow2(k - 6), big.e - 6,
                           small.m % Pow2(k - 6) # 0)

\* f32::to_bits of a non-negative f32: the bit patterns order as the values.
F32Bits(f) == IF f.m = 0 THEN 0 ELSE (f.e + 150) * Pow2(23) + (f.m - Pow2(23))

\* l2_distance of the f32 vector c and a vector of integers x: the sum from
\* 0.0 of the squares of the differences, every operation rounded to f32.
L2F32(c, x) ==
    F32Add(F32Add(F32Zero, F32Square(F32AbsDiff(c[1], x[1]))),
           F32Square(F32AbsDiff(c[2], x[2])))

\* ---------------------------------------------------------------- find_medoid
\* Lines 177-191: the component-wise sum of the vectors (the sum of integers
\* this small is exact in f32).
RECURSIVE VectorSum(_, _)
VectorSum(vecs, m) ==
    IF m = 0
    THEN <<0, 0>>
    ELSE LET rest == VectorSum(vecs, m - 1)
         IN  <<rest[1] + vecs[m - 1][1], rest[2] + vecs[m - 1][2]>>

\* Line 192: divide_scalar by total as f32: the centroid, each component the
\* f32 quotient of the sum and the number of rows.
Centroid(vecs, m) ==
    LET sum == VectorSum(vecs, m)
    IN  <<F32Div(sum[1], m), F32Div(sum[2], m)>>

\* Line 212: l2_distance(&centroids, vectors, dim) at row v: the f32 distance
\* of vector v to the centroid, as its bit pattern.
MutCentroidDistanceToSum(vecs, m, v) ==
    LET sum == VectorSum(vecs, m)
    IN  F32Bits(L2F32(<<F32Div(sum[1], 1), F32Div(sum[2], 1)>>, vecs[v]))

CentroidDistance(vecs, m, v) == F32Bits(L2F32(Centroid(vecs, m), vecs[v]))

\* crate::arrow::argmin over the array d of distances.  The function is
\* defined outside vamana.rs; it is taken as section 4.4.2 of the
\* specification has it: among equal minima, the lowest index.
ArgMin(d) == Min({v \in DOMAIN d : \A w \in DOMAIN d : d[v] <= d[w]})

\* Lines 194-228: the distance of every vector to the centroid, and the
\* argmin over them.
FindMedoid(vecs, m) == ArgMin([v \in Ids(m) |-> CentroidDistance(vecs, m, v)])

\* ----------------------------------------------------------------- index_pass
\* Lines 273-283: the task of back-neighbor j in the step of vertex id, on
\* the graph g as it is after id's own list was replaced: the lists the task
\* can return for j.
BackNeighbor(g, vecs, id, j, aH, rr) ==
    IF Len(Neighbors(g, j)) + 1 > rr
    THEN RobustPrune(g, vecs, j, Range(Neighbors(g, j)) \cup {id}, aH, rr)
    ELSE {<<id>>}

\* Lines 271-291: every task reads the graph g1; the returned lists are then
\* written in the order of id's neighbor list, from position idx on.
RECURSIVE WriteBacks(_, _, _, _, _, _, _)
WriteBacks(g1, g, vecs, id, idx, aH, rr) ==
    IF idx > Len(Neighbors(g1, id))
    THEN {g}
    ELSE LET j == Neighbors(g1, id)[idx]
         IN  UNION {WriteBacks(g1, [g EXCEPT ![j] = lst], vecs, id, idx + 1, aH, rr)
                    : lst \in BackNeighbor(g1, vecs, id, j, aH, rr)}

\* Lines 261-291: the step of vertex id in a pass: the graphs it can leave.
RefineStep(g, vecs, md, id, aH, rr, ss) ==
    UNION {
        UNION {
            LET g1 == [g EXCEPT ![id] = lst]
            IN  WriteBacks(g1, g1, vecs, id, 1, aH, rr)
            : lst \in RobustPrune(g, vecs, id, found.visited, aH, rr)}
        : found \in GreedySearch(g, vecs, md, vecs[id], PassK, ss)}

\* Lines 246, 292-294: the loop over the shuffled ids is over when every id
\* was iterated.
MutPassOverEarly(done, m) == done # {}

PassOver(done, m) == done = Ids(m)

\* Lines 284-286: try_collect returns the Vec of the tasks' results once
\* every task has completed.
MutAllTasksDoneAtOnce(pending) == TRUE

AllTasksDone(pending) == pending = {}

\* Lines 271, 285-286, 289: buffered yields the results in the order of the
\* stream, the neighbor list lst of id, and the loop writes them in that
\* order.
MutWriteOrderAscending(lst) == SortedSeq(Range(lst))

WriteOrder(lst) == lst

\* Line 271: the back-neighbors of the step of id are the ids of the list of
\* id as read after it was replaced (g1), not as it was before (g).
MutTaskTargetsOld(g, g1, id) == Neighbors(g, id)

TaskTargets(g, g1, id) == Neighbors(g1, id)

\* Lines 316, 320: alpha of a pass: 1.0 in the first, the given alpha after.
PassAlpha(pass, aH) == IF pass = 1 THEN AlphaOne ELSE aH

\* ------------------------------------------------------- try_new, step by step
\* The datasets a build is run on: the line 0, 1, 2, ... , the corners of the
\* unit square (0,0), (0,1), (1,0), (1,1) (repeated from the fifth row on),
\* and rows that are all the same vector.
LineRow(v) == <<v, 0>>

SquareRow(v) == <<(v \div 2) % 2, v % 2>>

SameRow(v) == <<0, 0>>

Datasets(m) ==
    {[v \in Ids(m) |-> LineRow(v)], [v \in Ids(m) |-> SquareRow(v)],
     [v \in Ids(m) |-> SameRow(v)]}

\* The row id column of each dataset: the line is a dataset written in one
\* piece, the others have scattered row ids.
DatasetRowIds(vecs, m) ==
    IF vecs = [v \in Ids(m) |-> LineRow(v)] THEN PositionRowIds(m) ELSE ScatteredRowIds(m)

InitBuild ==
    /\ n \in 0 .. MaxN
    /\ vectors \in Datasets(n)
    /\ r \in 0 .. MaxR
    /\ l \in 1 .. MaxL
    /\ alphaH \in Alphas
    /\ vertices = [v \in Ids(n) |-> <<>>]
    /\ vertexId = [v \in Ids(n) |-> VertexId(v)]
    /\ rowId = [v \in Ids(n) |-> RowId(DatasetRowIds(vectors, n), v)]
    /\ FieldIdle
    /\ pc = "init"
    /\ BuildIdle
    /\ PruneIdle
    /\ SearchIdle

\* Lines 115-139: one iteration of the loop of try_init.
TryInitVertex ==
    /\ pc = "init"
    /\ initI < n
    /\ \E S \in SampledSets(vertices, n, r, initI) : \E lst \in Perms(S) :
          vertices' = ConnectVertex(vertices, S, lst, initI)
    /\ initI' = initI + 1
    /\ UNCHANGED <<n, setId, fSelf, fOther, fOut, vertexId, rowId, firstRun, step, vectors, r, l, alphaH, pc, medoid, passNo, processed, stepId,
                   pId, pV, pst, gsStart, gsQuery, gsK, gsHeap, gsVisited, gsCand,
                   gsP, gsIdx, gsResult>>

\* Lines 121-126: no r distinct ids other than i exist; the loop never ends.
TryInitSpin ==
    /\ pc = "init"
    /\ initI < n
    /\ SampledSets(vertices, n, r, initI) = {}
    /\ pc' = "init_spin"
    /\ UNCHANGED <<n, setId, fSelf, fOther, fOut, vertexId, rowId, firstRun, step, vectors, vertices, r, l, alphaH, initI, medoid, passNo,
                   processed, stepId, pId, pV, pst, gsStart, gsQuery, gsK, gsHeap,
                   gsVisited, gsCand, gsP, gsIdx, gsResult>>

\* Lines 141-147: try_init returns the graph.
TryInitReturn ==
    /\ pc = "init"
    /\ n > 0
    /\ initI = n
    /\ pc' = "inited"
    /\ UNCHANGED <<n, setId, fSelf, fOther, fOut, vertexId, rowId, firstRun, step, vectors, vertices, r, l, alphaH, initI, medoid, passNo,
                   processed, stepId, pId, pV, pst, gsStart, gsQuery, gsK, gsHeap,
                   gsVisited, gsCand, gsP, gsIdx, gsResult>>

\* Lines 90 and 113, on a dataset of no rows: the scan yields no batch and
\* batches[0] indexes an empty Vec, and were a batch of no rows yielded,
\* Uniform::new(0, 0) has an empty range. Either way try_init panics before
\* the connecting loop.
TryInitPanic ==
    /\ pc = "init"
    /\ n = 0
    /\ pc' = "panic"
    /\ UNCHANGED <<n, setId, fSelf, fOther, fOut, vertexId, rowId, firstRun, step, vectors, vertices, r, l, alphaH, initI, medoid, passNo,
                   processed, stepId, pId, pV, pst, gsStart, gsQuery, gsK, gsHeap,
                   gsVisited, gsCand, gsP, gsIdx, gsResult>>

\* Lines 310-316: the medoid is found and the first pass begins.
FindMedoidAndStart ==
    /\ pc = "inited"
    /\ medoid' = FindMedoid(vectors, n)
    /\ passNo' = 1
    /\ processed' = {}
    /\ pc' = "pass"
    /\ UNCHANGED <<n, setId, fSelf, fOther, fOut, vertexId, rowId, firstRun, step, vectors, vertices, r, l, alphaH, initI, stepId,
                   pId, pV, pst, gsStart, gsQuery, gsK, gsHeap, gsVisited, gsCand,
                   gsP, gsIdx, gsResult>>

\* Lines 239-240, 246, 261-291: the next id of the shuffled order (any id
\* not yet iterated in this pass) is processed.
PassStep ==
    /\ pc = "pass"
    /\ \E id \in Ids(n) \ processed :
          /\ vertices' \in RefineStep(vertices, vectors, medoid, id,
                                       PassAlpha(passNo, alphaH), r, l)
          /\ stepId' = id
          /\ processed' = processed \cup {id}
    /\ UNCHANGED <<n, setId, fSelf, fOther, fOut, vertexId, rowId, firstRun, step, vectors, r, l, alphaH, pc, initI, medoid, passNo,
                   pId, pV, pst, gsStart, gsQuery, gsK, gsHeap, gsVisited, gsCand,
                   gsP, gsIdx, gsResult>>

\* Lines 294, 316-320: the first pass is over, the second begins.
NextPass ==
    /\ pc = "pass"
    /\ step.phase = "idle"
    /\ PassOver(processed, n)
    /\ passNo < NumPasses
    /\ passNo' = passNo + 1
    /\ processed' = {}
    /\ UNCHANGED <<n, setId, fSelf, fOther, fOut, vertexId, rowId, firstRun, step, vectors, vertices, r, l, alphaH, pc, initI, medoid, stepId,
                   pId, pV, pst, gsStart, gsQuery, gsK, gsHeap, gsVisited, gsCand,
                   gsP, gsIdx, gsResult>>

\* Lines 294, 320-323: the second pass is over, try_new returns the graph.
TryNewReturn ==
    /\ pc = "pass"
    /\ step.phase = "idle"
    /\ PassOver(processed, n)
    /\ passNo = NumPasses
    /\ pc' = "built"
    /\ UNCHANGED <<n, setId, fSelf, fOther, fOut, vertexId, rowId, firstRun, step, vectors, vertices, r, l, alphaH, initI, medoid, passNo,
                   processed, stepId, pId, pV, pst, gsStart, gsQuery, gsK, gsHeap,
                   gsVisited, gsCand, gsP, gsIdx, gsResult>>

\* A further index_pass on the built graph, with the given alpha.
ExtraPassStart ==
    /\ pc \in {"built", "extra"}
    /\ processed = Ids(n)
    /\ passNo < NumPasses + MaxExtraPasses
    /\ passNo' = passNo + 1
    /\ processed' = {}
    /\ pc' = "extra"
    /\ UNCHANGED <<n, setId, fSelf, fOther, fOut, vertexId, rowId, firstRun, step, vectors, vertices, r, l, alphaH, initI, medoid, stepId,
                   pId, pV, pst, gsStart, gsQuery, gsK, gsHeap, gsVisited, gsCand,
                   gsP, gsIdx, gsResult>>

ExtraPassStep ==
    /\ pc = "extra"
    /\ \E id \in Ids(n) \ processed :
          /\ vertices' \in RefineStep(vertices, vectors, medoid, id,
                                       PassAlpha(passNo, alphaH), r, l)
          /\ stepId' = id
          /\ processed' = processed \cup {id}
    /\ UNCHANGED <<n, setId, fSelf, fOther, fOut, vertexId, rowId, firstRun, step, vectors, r, l, alphaH, pc, initI, medoid, passNo,
                   pId, pV, pst, gsStart, gsQuery, gsK, gsHeap, gsVisited, gsCand,
                   gsP, gsIdx, gsResult>>

Next ==
    \/ TryInitPanic
    \/ TryInitVertex \/ TryInitSpin \/ TryInitReturn \/ FindMedoidAndStart
    \/ PassStep \/ NextPass \/ TryNewReturn \/ ExtraPassStart \/ ExtraPassStep

Spec == InitBuild /\ [][Next]_vars

\* ------------------------------------------ index_pass, task by task
\* Lines 246, 261-268: the step of the next id of the shuffled order begins:
\* greedy_search from the medoid, robust_prune of the visited set, and the
\* new list of id stored.  One task per id of that list is then to run.
StepBegin ==
    /\ pc = "pass"
    /\ step.phase = "idle"
    /\ \E id \in Ids(n) \ processed :
          \E found \in GreedySearch(vertices, vectors, medoid, vectors[id], PassK, l) :
             \E lst \in RobustPrune(vertices, vectors, id, found.visited,
                                    PassAlpha(passNo, alphaH), r) :
                /\ vertices' = [vertices EXCEPT ![id] = lst]
                /\ stepId' = id
                /\ processed' = processed \cup {id}
                /\ step' = [phase |-> "tasks",
                            pending |-> Range(TaskTargets(vertices, vertices', id)),
                            reading |-> <<>>,
                            results |-> <<>>,
                            written |-> <<>>, steps |-> step.steps + 1,
                            start |-> vertices',
                            targets |-> TaskTargets(vertices, vertices', id)]
    /\ UNCHANGED <<n, setId, fSelf, fOther, fOut, vertexId, rowId, firstRun, vectors, r, l, alphaH, pc, initI, medoid, passNo,
                   pId, pV, pst, gsStart, gsQuery, gsK, gsHeap, gsVisited, gsCand,
                   gsP, gsIdx, gsResult>>

\* Line 274: the test of the task of back-neighbor j on the list it read.
TaskPrunes(lst, rr) == Len(lst) + 1 > rr

\* The list the task of j returns from the list lst it read of j: the graph
\* is read for the list of j only (lines 273 and 411).
TaskResult(g, vecs, id, j, lst, aH, rr) ==
    BackNeighbor([g EXCEPT ![j] = lst], vecs, id, j, aH, rr)

\* Lines 272-278, 410-425: the task of back-neighbor j, polled for the first
\* time, reads the list of j in the graph as it is then, finds it full and
\* suspends in robust_prune on spawn_blocking; the tasks of the step are
\* polled in any order.
TaskRead ==
    /\ pc = "pass"
    /\ step.phase = "tasks"
    /\ \E j \in step.pending \ DOMAIN step.reading :
          /\ TaskPrunes(Neighbors(vertices, j), r)
          /\ step' = [step EXCEPT
                         !.reading = [k \in DOMAIN @ \cup {j} |->
                                         IF k = j THEN Neighbors(vertices, j) ELSE @[k]]]
    /\ UNCHANGED <<n, setId, fSelf, fOther, fOut, vertexId, rowId, firstRun, vectors, vertices, r, l, alphaH, pc, initI, medoid,
                   passNo, processed, stepId, pId, pV, pst, gsStart, gsQuery, gsK, gsHeap,
                   gsVisited, gsCand, gsP, gsIdx, gsResult>>

\* Lines 278-279, 425-456: a suspended task is resumed with the list
\* spawn_blocking computed from what the task read, and returns.
TaskReturn ==
    /\ pc = "pass"
    /\ step.phase = "tasks"
    /\ \E j \in DOMAIN step.reading :
          \E out \in TaskResult(vertices, vectors, stepId, j, step.reading[j],
                                PassAlpha(passNo, alphaH), r) :
             step' = [step EXCEPT
                         !.pending = @ \ {j},
                         !.reading = [k \in DOMAIN @ \ {j} |-> @[k]],
                         !.results = [k \in DOMAIN @ \cup {j} |->
                                         IF k = j
                                         THEN [read |-> step.reading[j], list |-> out]
                                         ELSE @[k]]]
    /\ UNCHANGED <<n, setId, fSelf, fOther, fOut, vertexId, rowId, firstRun, vectors, vertices, r, l, alphaH, pc, initI, medoid,
                   passNo, processed, stepId, pId, pV, pst, gsStart, gsQuery, gsK, gsHeap,
                   gsVisited, gsCand, gsP, gsIdx, gsResult>>

\* Lines 272-274, 280-283: the task of a back-neighbor j whose list is not
\* full reads the list and returns without suspending.
TaskDone ==
    /\ pc = "pass"
    /\ step.phase = "tasks"
    /\ \E j \in step.pending \ DOMAIN step.reading :
          /\ ~TaskPrunes(Neighbors(vertices, j), r)
          /\ \E out \in TaskResult(vertices, vectors, stepId, j, Neighbors(vertices, j),
                                   PassAlpha(passNo, alphaH), r) :
                step' = [step EXCEPT
                            !.pending = @ \ {j},
                            !.results = [k \in DOMAIN @ \cup {j} |->
                                            IF k = j
                                            THEN [read |-> vertices[j], list |-> out]
                                            ELSE @[k]]]
    /\ UNCHANGED <<n, setId, fSelf, fOther, fOut, vertexId, rowId, firstRun, vectors, vertices, r, l, alphaH, pc, initI, medoid,
                   passNo, processed, stepId, pId, pV, pst, gsStart, gsQuery, gsK, gsHeap,
                   gsVisited, gsCand, gsP, gsIdx, gsResult>>

\* Lines 289-291: one iteration of the loop over the collected results.
WriteBack ==
    /\ pc = "pass"
    /\ step.phase = "tasks"
    /\ AllTasksDone(step.pending)
    /\ Len(step.written) < Len(step.targets)
    /\ LET j == WriteOrder(step.targets)[Len(step.written) + 1]
       IN  /\ j \in DOMAIN step.results
           /\ vertices' = [vertices EXCEPT ![j] = step.results[j].list]
           /\ step' = [step EXCEPT !.written = Append(@, j)]
    /\ UNCHANGED <<n, setId, fSelf, fOther, fOut, vertexId, rowId, firstRun, vectors, r, l, alphaH, pc, initI, medoid,
                   passNo, processed, stepId, pId, pV, pst, gsStart, gsQuery, gsK, gsHeap,
                   gsVisited, gsCand, gsP, gsIdx, gsResult>>

\* Lines 291-292: the loop over the results is over, and with it the step.
StepEnd ==
    /\ pc = "pass"
    /\ step.phase = "tasks"
    /\ step.pending = {}
    /\ Len(step.written) = Len(step.targets)
    /\ step' = [NoStep EXCEPT !.steps = step.steps]
    /\ UNCHANGED <<n, setId, fSelf, fOther, fOut, vertexId, rowId, firstRun, vectors, vertices, r, l, alphaH, pc, initI, medoid,
                   passNo, processed, stepId, pId, pV, pst, gsStart, gsQuery, gsK, gsHeap,
                   gsVisited, gsCand, gsP, gsIdx, gsResult>>

NextTasks ==
    \/ TryInitPanic
    \/ TryInitVertex \/ TryInitSpin \/ TryInitReturn \/ FindMedoidAndStart
    \/ StepBegin \/ TaskRead \/ TaskReturn \/ TaskDone \/ WriteBack \/ StepEnd
    \/ NextPass \/ TryNewReturn

SpecTasks == InitBuild /\ [][NextTasks]_vars

\* Lines 298-324, called again: try_new takes the dataset, the column, r,
\* alpha and l, and draws its generator from rand::thread_rng() (lines 306,
\* 313); a second build of the same inputs starts from the same arguments
\* and nothing else.  The graph and medoid of the first build are kept aside.
Rebuild ==
    /\ pc = "built"
    /\ ~firstRun.built
    /\ passNo = NumPasses
    /\ firstRun' = [built |-> TRUE, vertices |-> vertices, medoid |-> medoid]
    /\ vertices' = [v \in Ids(n) |-> <<>>]
    /\ initI' = 0
    /\ medoid' = 0
    /\ passNo' = 0
    /\ processed' = {}
    /\ stepId' = 0
    /\ pc' = "init"
    /\ UNCHANGED <<n, setId, fSelf, fOther, fOut, vertexId, rowId, step, vectors, r, l, alphaH,
                   pId, pV, pst, gsStart, gsQuery, gsK, gsHeap, gsVisited, gsCand,
                   gsP, gsIdx, gsResult>>

NextTwin ==
    \/ TryInitPanic
    \/ TryInitVertex \/ TryInitSpin \/ TryInitReturn \/ FindMedoidAndStart
    \/ PassStep \/ NextPass \/ TryNewReturn \/ Rebuild

SpecTwin == InitBuild /\ [][NextTwin]_vars

\* Scenario S1 of the spec: the build of the four corners of the unit square
\* (0,0), (0,1), (1,0), (1,1) with R = 2, alpha = 1.0 and L = 4.
InitS1 ==
    /\ n = 4
    /\ vectors = [v \in Ids(4) |-> SquareRow(v)]
    /\ r = 2
    /\ l = 4
    /\ alphaH = AlphaOne
    /\ vertices = [v \in Ids(n) |-> <<>>]
    /\ vertexId = [v \in Ids(n) |-> VertexId(v)]
    /\ rowId = [v \in Ids(n) |-> RowId(PositionRowIds(n), v)]
    /\ FieldIdle
    /\ pc = "init"
    /\ BuildIdle
    /\ PruneIdle
    /\ SearchIdle

NextS1 ==
    \/ TryInitVertex \/ TryInitReturn \/ FindMedoidAndStart
    \/ PassStep \/ NextPass \/ TryNewReturn

SpecS1 == InitS1 /\ [][NextS1]_vars

\* Scenario S2 of the spec: the build of the ten points 0, 1, ..., 9 of a line
\* with R = 2, alpha = 1.0 and L = 5.
InitS2 ==
    /\ n = 10
    /\ vectors = [v \in Ids(10) |-> LineRow(v)]
    /\ r = 2
    /\ l = 5
    /\ alphaH = AlphaOne
    /\ vertices = [v \in Ids(n) |-> <<>>]
    /\ vertexId = [v \in Ids(n) |-> VertexId(v)]
    /\ rowId = [v \in Ids(n) |-> RowId(PositionRowIds(n), v)]
    /\ FieldIdle
    /\ pc = "init"
    /\ BuildIdle
    /\ PruneIdle
    /\ SearchIdle

\* The ids the generator is taken to draw for vertex i in scenario S2: the
\* next two ids around the ring.
RingSample(m, i) == {(i + 1) % m, (i + 2) % m}

\* Lines 115-139, with the sampled ids drawn from RingSample.
TryInitVertexRing ==
    /\ pc = "init"
    /\ initI < n
    /\ \E S \in SampledSets(vertices, n, r, initI) : \E lst \in Perms(S) :
          /\ S \ Range(Neighbors(vertices, initI)) \subseteq RingSample(n, initI)
          /\ vertices' = ConnectVertex(vertices, S, lst, initI)
    /\ initI' = initI + 1
    /\ UNCHANGED <<n, setId, fSelf, fOther, fOut, vertexId, rowId, firstRun, step, vectors, r, l, alphaH, pc, medoid, passNo,
                   processed, stepId, pId, pV, pst, gsStart, gsQuery, gsK, gsHeap,
                   gsVisited, gsCand, gsP, gsIdx, gsResult>>

\* The orders the shuffle is taken to produce in scenario S2: ascending or
\* descending ids.  The ids that can come next after those in done.
SweepNext(done, m) ==
    IF done = {} THEN {0, m - 1}
    ELSE IF 0 \in done THEN {Max(done) + 1} \cap Ids(m)
    ELSE {Min(done) - 1} \cap Ids(m)

\* Lines 239-240, 246, 261-291, with the shuffled order drawn from SweepNext.
PassStepSweep ==
    /\ pc = "pass"
    /\ \E id \in SweepNext(processed, n) :
          /\ vertices' \in RefineStep(vertices, vectors, medoid, id,
                                       PassAlpha(passNo, alphaH), r, l)
          /\ stepId' = id
          /\ processed' = processed \cup {id}
    /\ UNCHANGED <<n, setId, fSelf, fOther, fOut, vertexId, rowId, firstRun, step, vectors, r, l, alphaH, pc, initI, medoid, passNo,
                   pId, pV, pst, gsStart, gsQuery, gsK, gsHeap, gsVisited, gsCand,
                   gsP, gsIdx, gsResult>>

NextS2 ==
    \/ TryInitVertexRing \/ TryInitReturn \/ FindMedoidAndStart
    \/ PassStepSweep \/ NextPass \/ TryNewReturn

SpecS2 == InitS2 /\ [][NextS2]_vars

\* ------------------------------------------------- robust_prune, step by step
\* The inputs of one call robust_prune(graph, pId, pV, alpha, r): any vectors,
\* any target, any candidate set, and a target whose current neighbor list is
\* any set of other ids.
InitPrune ==
    /\ n \in 1 .. MaxN
    /\ vectors \in [Ids(n) -> Points]
    /\ pId \in Ids(n)
    /\ pV \in SUBSET Ids(n)
    /\ \E S \in SUBSET (Ids(n) \ {pId}) :
          vertices = [v \in Ids(n) |-> IF v = pId THEN SortedSeq(S) ELSE <<>>]
    /\ r \in 0 .. MaxR
    /\ alphaH \in Alphas
    /\ l = 0
    /\ vertexId = [v \in Ids(n) |-> VertexId(v)]
    /\ rowId = [v \in Ids(n) |-> RowId(PositionRowIds(n), v)]
    /\ FieldIdle
    /\ pc = "prune_call"
    /\ pst = NoPrune
    /\ BuildIdle
    /\ SearchIdle

\* Lines 410-421.
PruneCall ==
    /\ pc = "prune_call"
    /\ pst' = PruneEntry(vertices, pId, pV)
    /\ pc' = "prune_loop"
    /\ UNCHANGED <<n, setId, fSelf, fOther, fOut, vertexId, rowId, firstRun, step, vectors, vertices, r, l, alphaH, initI, medoid, passNo,
                   processed, stepId, pId, pV, gsStart, gsQuery, gsK, gsHeap,
                   gsVisited, gsCand, gsP, gsIdx, gsResult>>

\* Lines 427-451: one test of the loop condition and one run of the body.
PruneLoop ==
    /\ pc = "prune_loop"
    /\ pst.status = "loop"
    /\ pst' \in PruneIter(vectors, pId, alphaH, r, pst)
    /\ UNCHANGED <<n, setId, fSelf, fOther, fOut, vertexId, rowId, firstRun, step, vectors, vertices, r, l, alphaH, pc, initI, medoid, passNo,
                   processed, stepId, pId, pV, gsStart, gsQuery, gsK, gsHeap,
                   gsVisited, gsCand, gsP, gsIdx, gsResult>>

\* Lines 452-456: the list is returned.
PruneReturn ==
    /\ pc = "prune_loop"
    /\ pst.status = "done"
    /\ pc' = "prune_returned"
    /\ UNCHANGED <<n, setId, fSelf, fOther, fOut, vertexId, rowId, firstRun, step, vectors, vertices, r, l, alphaH, initI, medoid, passNo,
                   processed, stepId, pId, pV, pst, gsStart, gsQuery, gsK, gsHeap,
                   gsVisited, gsCand, gsP, gsIdx, gsResult>>

NextPrune == PruneCall \/ PruneLoop \/ PruneReturn

SpecPrune == InitPrune /\ [][NextPrune]_vars

\* Scenario S4 of the spec: robust_prune with R = 3 and alpha = 1.0 on eight
\* vertices whose vectors are all the same: any target, any candidate set,
\* and a target that holds no neighbor or one.
InitS4 ==
    /\ n = 8
    /\ vectors = [v \in Ids(8) |-> SameRow(v)]
    /\ pId \in Ids(n)
    /\ pV \in SUBSET Ids(n)
    /\ \E S \in SUBSET (Ids(n) \ {pId}) :
          /\ Cardinality(S) <= 1
          /\ vertices = [v \in Ids(n) |-> IF v = pId THEN SortedSeq(S) ELSE <<>>]
    /\ r = 3
    /\ alphaH = AlphaOne
    /\ l = 0
    /\ vertexId = [v \in Ids(n) |-> VertexId(v)]
    /\ rowId = [v \in Ids(n) |-> RowId(PositionRowIds(n), v)]
    /\ FieldIdle
    /\ pc = "prune_call"
    /\ pst = NoPrune
    /\ BuildIdle
    /\ SearchIdle

SpecS4 == InitS4 /\ [][NextPrune]_vars

\* The calls of robust_prune on four vertices: any vectors, target 0, any
\* candidate set, and a target that holds no neighbor or vertex 1.
InitPruneFour ==
    /\ n = 4
    /\ vectors \in [Ids(4) -> Points]
    /\ pId = 0
    /\ pV \in SUBSET Ids(n)
    /\ \E S \in SUBSET {1} :
          vertices = [v \in Ids(n) |-> IF v = pId THEN SortedSeq(S) ELSE <<>>]
    /\ r \in 0 .. MaxR
    /\ alphaH \in Alphas
    /\ l = 0
    /\ vertexId = [v \in Ids(n) |-> VertexId(v)]
    /\ rowId = [v \in Ids(n) |-> RowId(PositionRowIds(n), v)]
    /\ FieldIdle
    /\ pc = "prune_call"
    /\ pst = NoPrune
    /\ BuildIdle
    /\ SearchIdle

SpecPruneFour == InitPruneFour /\ [][NextPrune]_vars

\* V' of a robust_prune call: (V minus {i}) united with neighbors(i).
PruneVPrime == (pV \ {pId}) \cup Range(Neighbors(vertices, pId))

\* v is dominated by a member p of the returned list.
Dominated(v) ==
    \E p \in Range(pst.out) :
        alphaH * Distance(vectors, p, v) <= 2 * Distance(vectors, pId, v)

\* ------------------------------------------------ greedy_search, step by step
\* The inputs of one call greedy_search(start, query, k, search_size) with
\* 1 <= k <= search_size: any vectors, any start, any query point, a start
\* vertex whose neighbor list is any list of distinct other ids, and every
\* other vertex linked to all the others.
InitSearch ==
    /\ n \in 1 .. MaxN
    /\ vectors \in [Ids(n) -> Points]
    /\ gsStart \in Ids(n)
    /\ gsQuery \in Points
    /\ \E S \in SUBSET (Ids(n) \ {gsStart}) : \E lst \in Perms(S) :
          vertices = [v \in Ids(n) |->
                        IF v = gsStart THEN lst ELSE SortedSeq(Ids(n) \ {v})]
    /\ l \in 1 .. MaxL
    /\ gsK \in 1 .. MaxK
    /\ gsK <= l
    /\ r = 0 /\ alphaH = AlphaOne
    /\ vertexId = [v \in Ids(n) |-> VertexId(v)]
    /\ rowId = [v \in Ids(n) |-> RowId(PositionRowIds(n), v)]
    /\ FieldIdle
    /\ pc = "gs_call"
    /\ gsHeap = {} /\ gsVisited = {} /\ gsCand = EmptyMap
    /\ gsP = 0 /\ gsIdx = 0 /\ gsResult = NoResult
    /\ BuildIdle
    /\ PruneIdle

GsState == [heap |-> gsHeap, visited |-> gsVisited, cand |-> gsCand]

\* Lines 355-366.
GsEnter ==
    /\ pc = "gs_call"
    /\ LET st == GsEntry(vectors, gsStart, gsQuery)
       IN  gsHeap' = st.heap /\ gsVisited' = st.visited /\ gsCand' = st.cand
    /\ pc' = "gs_loop"
    /\ UNCHANGED <<n, setId, fSelf, fOther, fOut, vertexId, rowId, firstRun, step, vectors, vertices, r, l, alphaH, initI, medoid, passNo,
                   processed, stepId, pId, pV, pst, gsStart, gsQuery, gsK,
                   gsP, gsIdx, gsResult>>

\* Lines 367-373: an entry is popped; it is skipped, or marked visited and
\* its neighbor list is entered.
GsPop ==
    /\ pc = "gs_loop"
    /\ \E p \in GsHeapTop(gsHeap) :
          /\ gsHeap' = HeapRemove(gsHeap, p)
          /\ IF GsSkip(GsState, p)
             THEN UNCHANGED <<pc, gsVisited, gsP, gsIdx>>
             ELSE /\ gsVisited' = gsVisited \cup {p.id}
                  /\ gsP' = p.id
                  /\ gsIdx' = 1
                  /\ pc' = "gs_neighbors"
    /\ UNCHANGED <<n, setId, fSelf, fOther, fOut, vertexId, rowId, firstRun, step, vectors, vertices, r, l, alphaH, initI, medoid, passNo,
                   processed, stepId, pId, pV, pst, gsStart, gsQuery, gsK,
                   gsCand, gsResult>>

\* Lines 374-385: one iteration of the for loop over p's neighbors.
GsNeighbor ==
    /\ pc = "gs_neighbors"
    /\ gsIdx <= Len(Neighbors(vertices, gsP))
    /\ LET st == GsNeighborStep(vectors, gsQuery, l, Neighbors(vertices, gsP)[gsIdx], GsState)
       IN  gsCand' = st.cand
    /\ gsIdx' = gsIdx + 1
    /\ UNCHANGED <<n, setId, fSelf, fOther, fOut, vertexId, rowId, firstRun, step, vectors, vertices, r, l, alphaH, pc, initI, medoid, passNo,
                   processed, stepId, pId, pV, pst, gsStart, gsQuery, gsK,
                   gsHeap, gsVisited, gsP, gsResult>>

\* Line 385: the for loop is over, back to the while loop.
GsNeighborsEnd ==
    /\ pc = "gs_neighbors"
    /\ gsIdx > Len(Neighbors(vertices, gsP))
    /\ pc' = "gs_loop"
    /\ UNCHANGED <<n, setId, fSelf, fOther, fOut, vertexId, rowId, firstRun, step, vectors, vertices, r, l, alphaH, initI, medoid, passNo,
                   processed, stepId, pId, pV, pst, gsStart, gsQuery, gsK,
                   gsHeap, gsVisited, gsCand, gsP, gsIdx, gsResult>>

\* Lines 367, 388-391: the heap is empty, the pair is returned.
GsReturn ==
    /\ pc = "gs_loop"
    /\ gsHeap = {}
    /\ gsResult' = GsReturnValue(GsState, gsK)
    /\ pc' = "gs_returned"
    /\ UNCHANGED <<n, setId, fSelf, fOther, fOut, vertexId, rowId, firstRun, step, vectors, vertices, r, l, alphaH, initI, medoid, passNo,
                   processed, stepId, pId, pV, pst, gsStart, gsQuery, gsK,
                   gsHeap, gsVisited, gsCand, gsP, gsIdx>>

NextSearch == GsEnter \/ GsPop \/ GsNeighbor \/ GsNeighborsEnd \/ GsReturn

SpecSearch == InitSearch /\ [][NextSearch]_vars

\* The search is one sequential function: once called it runs on.
SpecSearchFair == SpecSearch /\ WF_vars(NextSearch)

\* ---------------------------------------------------------------- C3, C4
\* C3 (as claimed): when robust_prune has returned N', every v of V' that is
\* not in N' has some p in N' with alpha * dist(p, v) <= dist(i, v), whatever
\* the sizes of V' and R.
C3_AsClaimed ==
    pc = "prune_returned" =>
        \A v \in PruneVPrime \ Range(pst.out) : Dominated(v)

\* C3 (amended): the same, for the calls in which the cap did not cut the
\* selection short: the returned list has fewer than R ids, or V' has at
\* most R members.
C3_Amended ==
    (pc = "prune_returned" /\ (Len(pst.out) < r \/ Cardinality(PruneVPrime) <= r)) =>
        \A v \in PruneVPrime \ Range(pst.out) : Dominated(v)

\* A call returned below the cap and left out a candidate of V', which a
\* returned id dominates.
C3_Witness ==
    /\ pc = "prune_returned"
    /\ Len(pst.out) < r
    /\ PruneVPrime \ Range(pst.out) # {}
    /\ \A v \in PruneVPrime \ Range(pst.out) : Dominated(v)

\* C4: the list robust_prune returns has at most R ids, for every R >= 0.
C4_LengthAtMostR == pc = "prune_returned" => Len(pst.out) <= r

\* ---------------------------------------------------------------- C5 - C9
\* The neighbor the for loop of greedy_search is about to handle.
GsAtNeighbor == pc = "gs_neighbors" /\ gsIdx <= Len(Neighbors(vertices, gsP))

GsNb == Neighbors(vertices, gsP)[gsIdx]

\* The vertices that can be reached from the set S along the edges of g.
RECURSIVE ReachableFrom(_, _)
ReachableFrom(g, S) ==
    LET next == S \cup UNION {Range(g[v]) : v \in S}
    IN  IF next = S THEN S ELSE ReachableFrom(g, next)

\* C5: greedy_search returns exactly k ids (k <= L), each in [0, N), in
\* ascending order of distance to the query.  Stated for the calls in which
\* at least k vertices can be reached from the start: no search can return
\* more ids than that.
C5_ExactlyKSorted ==
    (pc = "gs_returned" /\ Cardinality(ReachableFrom(vertices, {gsStart})) >= gsK) =>
        /\ Len(gsResult.ids) = gsK
        /\ \A x \in DOMAIN gsResult.ids : gsResult.ids[x] \in Ids(n)
        /\ \A x, y \in DOMAIN gsResult.ids :
              x < y => DistanceTo(vectors, gsQuery, gsResult.ids[x])
                         <= DistanceTo(vectors, gsQuery, gsResult.ids[y])

\* C6: when greedy_search returns, every id still held in candidates has been
\* popped and expanded, that is, it is in the returned visited set.
C6_CandidatesVisited ==
    pc = "gs_returned" => CandIds(gsCand) \subseteq gsResult.visited

\* C7: when a neighbor nb is inserted while fewer than L candidates are held
\* and a different vertex m at the same distance from the query is held, both
\* m and nb are held afterwards.
C7_TiesBothKept ==
    [][(GsAtNeighbor /\ gsIdx' = gsIdx + 1 /\ GsNb \notin gsVisited
          /\ Cardinality(DOMAIN gsCand) < l)
       => \A m \in CandIds(gsCand) :
             (m # GsNb /\ DistanceTo(vectors, gsQuery, m) = DistanceTo(vectors, gsQuery, GsNb))
             => (m \in CandIds(gsCand') /\ GsNb \in CandIds(gsCand'))]_vars

C9_Terminates ==
    /\ <>(pc = "gs_returned" /\ gsHeap = {})
    /\ [][(pc = "gs_loop" /\ pc' = "gs_neighbors")
           => (gsP' \notin gsVisited /\ gsVisited' = gsVisited \cup {gsP'})]_vars

\* A search that expanded a vertex has returned with an empty heap.
C9_Witness == pc = "gs_returned" /\ gsHeap = {} /\ gsResult.visited # {}

\* ------------------------------------------------------------ C1, C2, C10
\* The neighbor list of vertex i holds pairwise distinct ids of [0, N), not
\* i itself, and at most R of them.
ValidNeighborList(i) ==
    /\ IsDistinct(vertices[i])
    /\ i \notin Range(vertices[i])
    /\ Range(vertices[i]) \subseteq Ids(n)
    /\ Len(vertices[i]) <= r

\* try_new has returned, or a further pass over the built graph is complete.
BuildFinished == pc = "built" \/ (pc = "extra" /\ processed = Ids(n))

\* C1: after try_new finishes, and after any further refinement pass, every
\* vertex has a neighbor list of pairwise distinct ids, never its own id,
\* all in [0, N), and of length at most R.
C1_GraphInvariant == BuildFinished => \A i \in Ids(n) : ValidNeighborList(i)

\* A step of index_pass is taken: one more id is processed.
RefineStepTaken ==
    /\ pc \in {"pass", "extra"}
    /\ processed' = processed \cup {stepId'}
    /\ stepId' \notin processed

\* C2: in the step of vertex i, every j of i's new neighbor list whose list J
\* has |J| + 1 <= R ends the step with J with i appended: every id that was
\* in J is still a neighbor of j, and i is one.
C2_BackNeighborAppends ==
    [][RefineStepTaken =>
         \A j \in Range(vertices'[stepId']) :
             Len(vertices[j]) + 1 <= r =>
                 /\ Range(vertices[j]) \subseteq Range(vertices'[j])
                 /\ stepId' \in Range(vertices'[j])]_vars

\* C10: after try_init the graph is symmetric: j in neighbors(i) implies
\* i in neighbors(j).
C10_InitSymmetric ==
    pc = "inited" =>
        \A i, j \in Ids(n) : j \in Range(vertices[i]) => i \in Range(vertices[j])

\* try_init has returned a graph in which some vertex holds more than R
\* neighbors: reverse edges were appended to its sampled ones.
C10_Witness ==
    /\ pc = "inited"
    /\ r >= 1
    /\ \E i \in Ids(n) : Cardinality(Range(vertices[i])) > r


\* C11: after try_init with 1 <= R < N, every neighbor list holds pairwise
\* distinct ids, none of them the vertex itself, all of them in [0, N).
C11_InitListsDistinct ==
    (pc = "inited" /\ 1 <= r /\ r < n) =>
        \A i \in Ids(n) :
            /\ IsDistinct(vertices[i])
            /\ i \notin Range(vertices[i])
            /\ Range(vertices[i]) \subseteq Ids(n)

\* C12 as stated: after try_init returns, every vertex has at least one
\* neighbor and the vertex at position i has id i.
C12_AsClaimed ==
    pc = "inited" =>
        \A i \in Ids(n) : Len(vertices[i]) >= 1 /\ vertexId[i] = i

\* C12: after try_init returns with R >= 1, every vertex has at least one
\* neighbor and the vertex at position i has id i.
C12_Amended ==
    (pc = "inited" /\ r >= 1) =>
        \A i \in Ids(n) : Len(vertices[i]) >= 1 /\ vertexId[i] = i

\* try_init has returned a graph of several vertices, each with R >= 1
\* sampled neighbors.
C12_Witness ==
    /\ pc = "inited"
    /\ r >= 1
    /\ n >= 2
    /\ \A i \in Ids(n) : Cardinality(Range(vertices[i])) >= r

\* C13: with R >= N, try_init neither loops forever nor returns a graph.
C13_NoSpinWhenRTooLarge ==
    (n >= 1 /\ r >= n) => pc \notin {"init_spin", "inited"}

\* C14: on a dataset of no rows the build neither panics nor returns a graph.
C14_EmptyDatasetNoPanic ==
    n = 0 => pc \notin {"panic", "inited", "built"}

\* The sum of coordinate k over the vectors of the vertices in S.
\* ------------------------------------------------------ find_medoid, by itself
\* The calls of find_medoid on five rows, each any point of the grid
\* 0..2 x 0..2: the mean is a multiple of 1/5, which f32 does not hold.
MedoidPoints == (0 .. 2) \X (0 .. 2)

InitMedoid ==
    /\ n = 5
    /\ vectors \in [Ids(5) -> MedoidPoints]
    /\ vertices = [v \in Ids(n) |-> <<>>]
    /\ vertexId = [v \in Ids(n) |-> VertexId(v)]
    /\ rowId = [v \in Ids(n) |-> RowId(PositionRowIds(n), v)]
    /\ r = 0
    /\ l = 0
    /\ alphaH = AlphaOne
    /\ FieldIdle
    /\ pc = "medoid_call"
    /\ BuildIdle
    /\ PruneIdle
    /\ SearchIdle

\* Lines 166-229: find_medoid is called and returns.
FindMedoidCall ==
    /\ pc = "medoid_call"
    /\ medoid' = FindMedoid(vectors, n)
    /\ pc' = "medoid_returned"
    /\ UNCHANGED <<n, setId, fSelf, fOther, fOut, vertexId, rowId, firstRun, step, vectors,
                   vertices, r, l, alphaH, initI, passNo, processed, stepId, pId, pV, pst,
                   gsStart, gsQuery, gsK, gsHeap, gsVisited, gsCand, gsP, gsIdx, gsResult>>

NextMedoid == FindMedoidCall

SpecMedoid == InitMedoid /\ [][NextMedoid]_vars

RECURSIVE CoordSum(_, _)
CoordSum(S, k) ==
    IF S = {}
    THEN 0
    ELSE LET v == CHOOSE x \in S : TRUE
         IN  vectors[v][k] + CoordSum(S \ {v}, k)

\* The squared distance of vector v to the mean of all vectors, times N * N,
\* in exact arithmetic.
ScaledMeanDistance(v) ==
    LET dx == n * vectors[v][1] - CoordSum(Ids(n), 1)
        dy == n * vectors[v][2] - CoordSum(Ids(n), 2)
    IN  dx * dx + dy * dy

\* The mean s / m of a coordinate is a value f32 holds exactly: its
\* denominator in lowest terms is a power of two (the integers are small).
MeanHeld(s, m) == \E k \in 0 .. m : (s * 2 ^ k) % m = 0

MeanExact == MeanHeld(CoordSum(Ids(n), 1), n) /\ MeanHeld(CoordSum(Ids(n), 2), n)

MedoidFound == pc \in {"pass", "built", "extra", "medoid_returned"}

C16_RebuildIdentical ==
    (/\ pc = "built" /\ firstRun.built
     /\ 1 <= r /\ r < n
     /\ \A v, w \in Ids(n) : v # w => vectors[v] # vectors[w]) =>
        /\ medoid = firstRun.medoid
        /\ vertices = firstRun.vertices


\* C17: in the step of vertex i no write-back is applied while a task of the
\* step is still to complete, and every task, suspended or returned, read
\* the list of its back-neighbor j as it stood when the tasks of the step
\* were started.
C17_TasksReadStartOfStep ==
    step.phase = "tasks" =>
        /\ step.pending # {} => (step.written = <<>> /\ vertices = step.start)
        /\ \A j \in DOMAIN step.reading : step.reading[j] = step.start[j]
        /\ \A j \in DOMAIN step.results : step.results[j].read = step.start[j]

\* Two tasks of a step have completed, one of them after it was suspended
\* in robust_prune, and the first of their lists has been written back.
C17_Witness ==
    /\ step.phase = "tasks"
    /\ Cardinality(DOMAIN step.results) >= 2
    /\ \E j \in DOMAIN step.results : TaskPrunes(step.results[j].read, r)
    /\ Len(step.written) = 1
    /\ vertices # step.start

\* C18 as stated: the lists of a step are written back in ascending order of
\* the back-neighbor id j.
C18_AsClaimed ==
    \A a, b \in 1 .. Len(step.written) : a < b => step.written[a] < step.written[b]

\* C18: the lists of a step are written back in the order of the new neighbor
\* list of i, whatever order the tasks completed in.
C18_Amended ==
    step.phase = "tasks" =>
        /\ Len(step.written) <= Len(step.start[stepId])
        /\ step.written = SubSeq(step.start[stepId], 1, Len(step.written))

\* Two lists were written back, that of the higher id first.
C18_Witness ==
    /\ step.phase = "tasks"
    /\ Len(step.written) >= 2
    /\ step.written[1] > step.written[2]

\* A pass of index_pass ends: the next one begins or try_new returns.
PassEnds == pc = "pass" /\ (passNo' = passNo + 1 \/ pc' = "built")

\* C19: a pass ends only after exactly N steps that processed every vertex;
\* a step begins only when no step is under way, on a vertex not yet
\* processed in the pass; and a step ends only when the list of every one of
\* its tasks has been written back.
C19_EveryVertexOncePerPass ==
    [][/\ PassEnds =>
            /\ processed = Ids(n)
            /\ step.steps = passNo * n
            /\ step.phase = "idle"
       /\ step'.steps = step.steps + 1 =>
            /\ step.phase = "idle"
            /\ stepId' \notin processed
            /\ processed' = processed \cup {stepId'}
       /\ (step.phase = "tasks" /\ step'.phase = "idle") =>
            /\ Len(step.written) = Len(step.start[stepId])
            /\ \A j \in Range(step.start[stepId]) :
                  vertices[j] = step.results[j].list]_vars

\* try_new has returned after two passes of N >= 2 steps each.
C19_Witness ==
    /\ pc = "built"
    /\ n >= 2
    /\ r >= 1
    /\ step.steps = NumPasses * n


\* C20: when the build of a fixture has returned, every vertex can be reached
\* from the medoid along outgoing edges.
C20_ReachableFromMedoid ==
    pc = "built" => ReachableFrom(vertices, {medoid}) = Ids(n)


\* C21: scenario S1: when the build of the unit square has returned, the
\* medoid is vertex 0 and the neighbors of every vertex are exactly the two
\* other vertices at squared distance 1 from it.
C21_SquareNearestTwo ==
    pc = "built" =>
        /\ medoid = 0
        /\ \A v \in Ids(n) :
              Range(vertices[v]) = {w \in Ids(n) \ {v} : Distance(vectors, v, w) = 1}


\* The neighbors of v are two vertices, and no other vertex is nearer to v
\* than either of them.
TwoNearest(v) ==
    LET W == Range(vertices[v])
    IN  /\ Cardinality(W) = 2
        /\ v \notin W
        /\ \A w \in W : \A u \in Ids(n) \ (W \cup {v}) :
              Distance(vectors, v, w) <= Distance(vectors, v, u)

\* C22: scenario S2: when the build of the line has returned, the neighbors
\* of every vertex, the two ends included, are its two nearest vertices.
C22_LineNearestTwo ==
    pc = "built" => \A v \in Ids(n) : TwoNearest(v)


\* C23 as stated: scenario S4: robust_prune on a candidate set of at least R
\* vertices returns exactly R distinct ids.
C23_AsClaimed ==
    (pc = "prune_returned" /\ Cardinality(PruneVPrime) >= r) =>
        /\ Len(pst.out) = r
        /\ IsDistinct(pst.out)

\* C23: scenario S4: robust_prune on a candidate set of at least R vertices
\* never pops an empty heap, empties its working set in its first iteration,
\* and returns exactly one id, a member of the candidate set.
C23_Amended ==
    Cardinality(PruneVPrime) >= r =>
        /\ pc = "prune_loop" => pst.status # "panic"
        /\ (pc = "prune_loop" /\ Len(pst.out) >= 1) => pst.visited = {}
        /\ pc = "prune_returned" => (Len(pst.out) = 1 /\ pst.out[1] \in PruneVPrime)

\* robust_prune has returned from a call on all eight vertices.
C23_Witness ==
    /\ pc = "prune_returned"
    /\ n = 8
    /\ Cardinality(PruneVPrime) = 7
    /\ \A v, w \in Ids(n) : Distance(vectors, v, w) = 0


\* C26: the list robust_prune(i, V, alpha, R) returns holds pairwise distinct
\* ids, never i, and only ids of (V minus {i}) united with neighbors(i),
\* when neighbors(i) does not hold i.
C26_PruneOutputFromCandidates ==
    (pc = "prune_returned" /\ pId \notin Range(Neighbors(vertices, pId))) =>
        /\ IsDistinct(pst.out)
        /\ pId \notin Range(pst.out)
        /\ Range(pst.out) \subseteq PruneVPrime

\* robust_prune has returned two ids from a call whose V held the target.
C26_Witness ==
    /\ pc = "prune_returned"
    /\ pId \in pV
    /\ Len(pst.out) >= 2

\* C28: in the selection loop of robust_prune every id of the working set V
\* is in the heap, no pop finds the heap empty, and the loop ends with V empty
\* or the output at the cap.
C28_HeapHoldsWorkingSet ==
    pc = "prune_loop" =>
        /\ pst.status # "panic"
        /\ pst.status = "loop" => pst.visited \subseteq pst.heap
        /\ pst.status = "done" => (pst.visited = {} \/ Len(pst.out) >= r)

\* The loop is about to run again with a heap that holds, before an id of the
\* working set, an id that was removed from it: the next pop is discarded.
C28_Witness ==
    /\ pc = "prune_loop"
    /\ pst.status = "loop"
    /\ Len(pst.out) >= 1
    /\ \E x \in pst.heap \ pst.visited : \E w \in pst.visited :
          Distance(vectors, pId, x) < Distance(vectors, pId, w)


\* C27: with R >= 1, from the return of try_init on, every vertex has at
\* least one neighbor between the steps of the passes and after them.
C27_NoListEmptied ==
    (r >= 1 /\ pc \in {"inited", "pass", "built", "extra"}) =>
        \A v \in Ids(n) : Len(vertices[v]) >= 1

\* The step of the medoid has just been taken in the second pass.
C27_Witness ==
    /\ pc = "pass"
    /\ r >= 1
    /\ n >= 2
    /\ passNo = NumPasses
    /\ stepId = medoid
    /\ medoid \in processed


\* The back-neighbors of the step under way: the new neighbor list of i.
StepTargets == step.start[stepId]

\* C29: in a step the write-backs go to pairwise distinct vertices, none of
\* them i, each written at most once; once all are applied the graph is the
\* graph the tasks read with the list of every target replaced by its
\* task's result, whatever the order of the writes.
C29_WriteBackTargetsDistinct ==
    step.phase = "tasks" =>
        /\ IsDistinct(StepTargets)
        /\ stepId \notin Range(StepTargets)
        /\ IsDistinct(step.written)
        /\ Range(step.written) \subseteq Range(StepTargets)
        /\ Len(step.written) = Len(StepTargets) =>
              vertices = [v \in Ids(n) |->
                            IF v \in Range(StepTargets)
                            THEN step.results[v].list
                            ELSE step.start[v]]

\* Both write-backs of a step with two back-neighbors have been applied.
C29_Witness ==
    /\ step.phase = "tasks"
    /\ Len(StepTargets) = 2
    /\ Len(step.written) = 2


\* C30: during the passes the vectors, the vertex ids and the row ids never
\* change; a neighbor list changes only if it is that of the vertex i of the
\* step under way or of a vertex in the new neighbor list of i; the search
\* and the prune that begin a step change no list but that of i, and a task
\* that reads or returns changes no list at all.
C30_StepFrame ==
    [][(pc = "pass" /\ pc' = "pass") =>
          /\ vectors' = vectors
          /\ vertexId' = vertexId
          /\ rowId' = rowId
          /\ \A v \in Ids(n) :
                vertices'[v] # vertices[v] =>
                    (v = stepId' \/ v \in Range(vertices'[stepId']))
          /\ step'.steps = step.steps + 1 =>
                \A v \in Ids(n) \ {stepId'} : vertices'[v] = vertices[v]
          /\ ((step'.pending # step.pending \/ step'.reading # step.reading)
              /\ step'.steps = step.steps) =>
                vertices' = vertices]_vars

\* A write-back of a step has changed the list of a back-neighbor while a
\* third vertex kept its list.
C30_Witness ==
    /\ step.phase = "tasks"
    /\ Len(step.written) >= 1
    /\ n >= 3
    /\ \E j \in Range(step.written) : vertices[j] # step.start[j]
    /\ \E v \in Ids(n) \ ({stepId} \cup Range(step.targets)) : Len(vertices[v]) >= 1


\* ---------------------------------------------------------- Field::intersection
\* A Field is modelled by its name, its logical type ("struct" or the name of
\* a primitive type), its nullable flag and its children.
FieldNames == {"a", "b"}

LeafTypes == {"int32", "utf8"}

Leaves ==
    [name : FieldNames, type : LeafTypes, nullable : BOOLEAN, children : {<<>>}]

\* The child lists of a struct over the fields of F: at most two children,
\* of different names.
ChildLists(F) ==
    {<<>>} \cup {<<c>> : c \in F}
           \cup {cd \in F \X F : cd[1].name # cd[2].name}

Structs(F) ==
    [name : FieldNames, type : {"struct"}, nullable : {TRUE}, children : ChildLists(F)]

\* Structs of at most one leaf, and the fields of the model: the leaves and
\* the structs over leaves and such structs.
SmallStructs ==
    {f \in Structs(Leaves) : Len(f.children) <= 1}

Fields == Leaves \cup Structs(Leaves \cup SmallStructs)

\* Lines 58-69: data_type(): the type of a primitive field, and for a struct
\* the struct type over the name, type and nullable flag of its children.
RECURSIVE DataType(_)
DataType(f) ==
    IF f.type = "struct"
    THEN [struct |-> [k \in DOMAIN f.children |->
                         [name |-> f.children[k].name,
                          type |-> DataType(f.children[k]),
                          nullable |-> f.children[k].nullable]]]
    ELSE [primitive |-> f.type]

\* DataType::is_struct.
IsStructType(t) == "struct" \in DOMAIN t

\* Lines 71-73: child(name): the first child of that name, if any.
MutChildFirst(f, name) ==
    IF f.children = <<>>
    THEN [found |-> FALSE, field |-> NoField]
    ELSE [found |-> TRUE, field |-> f.children[1]]

Child(f, name) ==
    LET hits == {k \in DOMAIN f.children : f.children[k].name = name}
    IN  IF hits = {}
        THEN [found |-> FALSE, field |-> NoField]
        ELSE [found |-> TRUE, field |-> f.children[Min(hits)]]

FieldErr == [ok |-> FALSE, field |-> NoField]

FieldOk(f) == [ok |-> TRUE, field |-> f]

\* Lines 226-233: the fields are not both structs: an error when the data
\* types differ, else a clone of the receiver.
MutPrimitiveIntersectionOther(self, other) ==
    IF DataType(self) # DataType(other) \/ self.name # other.name
    THEN FieldErr
    ELSE FieldOk(other)

PrimitiveIntersection(self, other) ==
    IF DataType(self) # DataType(other) \/ self.name # other.name
    THEN FieldErr
    ELSE FieldOk(self)

\* Lines 190-234: Field::intersection, and (lines 200-211) the filter_map over
\* the children of the receiver from position k on.
RECURSIVE Intersection(_, _)
RECURSIVE IntersectChildren(_, _, _)
IntersectChildren(self, other, k) ==
    IF k > Len(self.children)
    THEN <<>>
    ELSE LET c    == self.children[k]
             oc   == Child(other, c.name)
             rest == IntersectChildren(self, other, k + 1)
         IN  IF oc.found /\ Intersection(c, oc.field).ok
             THEN <<Intersection(c, oc.field).field>> \o rest
             ELSE rest

Intersection(self, other) ==
    IF self.name # other.name
    THEN FieldErr
    ELSE IF IsStructType(DataType(self)) /\ IsStructType(DataType(other))
    THEN FieldOk([self EXCEPT !.children = IntersectChildren(self, other, 1)])
    ELSE PrimitiveIntersection(self, other)

InitField ==
    /\ fSelf \in Fields
    /\ fOther \in Fields
    /\ fOut = NoOutcome
    /\ setId = NoSetId
    /\ pc = "field_call"
    /\ n = 0
    /\ vectors = <<>>
    /\ vertices = <<>>
    /\ vertexId = <<>>
    /\ rowId = <<>>
    /\ r = 0
    /\ l = 0
    /\ alphaH = AlphaOne
    /\ BuildIdle
    /\ PruneIdle
    /\ SearchIdle

\* Lines 190-234: self.intersection(other) is called and returns.
FieldIntersection ==
    /\ pc = "field_call"
    /\ fOut' = Intersection(fSelf, fOther)
    /\ pc' = "field_returned"
    /\ UNCHANGED <<n, setId, fSelf, fOther, vertexId, rowId, firstRun, step, vectors, vertices, r, l,
                   alphaH, initI, medoid, passNo, processed, stepId, pId, pV, pst, gsStart,
                   gsQuery, gsK, gsHeap, gsVisited, gsCand, gsP, gsIdx, gsResult>>

NextField == FieldIntersection

SpecField == InitField /\ [][NextField]_vars


\* C24: the intersection of two fields that are not structs succeeds exactly
\* when they have the same name and the same type, and then returns a field
\* equal to the receiver.
C24_PrimitiveIntersection ==
    (pc = "field_returned" /\ fSelf.type # "struct" /\ fOther.type # "struct") =>
        /\ fOut.ok <=> (fSelf.name = fOther.name /\ fSelf.type = fOther.type)
        /\ fOut.ok => fOut.field = fSelf

\* The intersection of two primitive fields that differ in their nullable
\* flag only has returned.
C24_Witness ==
    /\ pc = "field_returned"
    /\ fSelf.type # "struct"
    /\ fOut.ok
    /\ fSelf # fOther

\* The child of f at position k has, in g, a child of its name and of its
\* kind: both structs, or both of the same primitive type.
HasMatch(f, g, k) ==
    \E j \in DOMAIN g.children :
        /\ g.children[j].name = f.children[k].name
        /\ g.children[j].type = f.children[k].type

\* The positions of the children of f that have a match in g, ascending.
MatchedPositions(f, g) == SortedSeq({k \in DOMAIN f.children : HasMatch(f, g, k)})

\* C25: the intersection of two structs of the same name returns the
\* receiver with, for children, those of its children that have a child of
\* the same name in the other field with which their own intersection
\* succeeds, in the order of the receiver: a kept primitive child is the
\* child of the receiver, a kept struct child has its name and flag.
C25_StructIntersection ==
    (/\ pc = "field_returned"
     /\ fSelf.type = "struct" /\ fOther.type = "struct"
     /\ fSelf.name = fOther.name) =>
        LET kept == MatchedPositions(fSelf, fOther)
            out  == fOut.field
        IN  /\ fOut.ok
            /\ out.name = fSelf.name /\ out.type = "struct" /\ out.nullable = fSelf.nullable
            /\ Len(out.children) = Len(kept)
            /\ \A x \in DOMAIN kept :
                  LET c == fSelf.children[kept[x]]
                  IN  /\ out.children[x].name = c.name
                      /\ out.children[x].type = c.type
                      /\ out.children[x].nullable = c.nullable
                      /\ c.type # "struct" => out.children[x] = c

\* The intersection of two structs has returned: the receiver has two
\* children of which the second only is kept, and the other field has a
\* child that the receiver has not.
C25_Witness ==
    /\ pc = "field_returned"
    /\ fSelf.type = "struct" /\ fOther.type = "struct"
    /\ fOut.ok
    /\ Len(fSelf.children) = 2
    /\ Len(fOut.field.children) = 1
    /\ fOut.field.children[1].name = fSelf.children[2].name
    /\ Len(fOther.children) = 2



\* ------------------------------------------------------------- Field::set_id
\* For set_id a Field is modelled by the three members the function reads or
\* writes: id, parent_id and children.  Fields start with parent_id -1 (line
\* 392) and an id that is -1 (line 391) or was assigned earlier.
MaxId == 1

MaxSeed == 2

IdsBefore == -1 .. MaxId

IdLeaves == [id : IdsBefore, parent_id : {-1}, children : {<<>>}]

\* The child lists over the fields of F: none, one or two children.
IdChildLists(F) == {<<>>} \cup {<<c>> : c \in F} \cup (F \X F)

IdParents(F) == [id : IdsBefore, parent_id : {-1}, children : IdChildLists(F)]

\* Trees of depth at most two below the root.
IdFields == IdParents(IdParents(IdLeaves))

\* Lines 293-294: the id of the field after the test of its id.
NewId(f, seed) == IF f.id < 0 THEN seed ELSE f.id

\* Lines 293-296: the seed after the test of the field's id.
NextSeed(f, seed) == IF f.id < 0 THEN seed + 1 ELSE seed

\* Line 299: the parent_id handed to the children is self.id, read after the
\* assignment of line 294.
MutChildParentOldId(f, id) == f.id

ChildParentId(f, id) == id

\* Lines 291-300: set_id on a field and (lines 297-299) on its children from
\* the first to the last, all through the one mutable seed.  The result is the
\* field after the call and the seed after the call.
RECURSIVE SetId(_, _, _)
RECURSIVE SetIdChildren(_, _, _, _)
SetId(f, parent_id, seed) ==
    LET id   == NewId(f, seed)
        kids == SetIdChildren(f.children, ChildParentId(f, id), NextSeed(f, seed), 1)
    IN  [field |-> [id |-> id, parent_id |-> parent_id, children |-> kids.children],
         seed  |-> kids.seed]

SetIdChildren(cs, pid, seed, k) ==
    IF k > Len(cs)
    THEN [children |-> <<>>, seed |-> seed]
    ELSE LET first == SetId(cs[k], pid, seed)
             rest  == SetIdChildren(cs, pid, first.seed, k + 1)
         IN  [children |-> <<first.field>> \o rest.children, seed |-> rest.seed]

InitSetId ==
    /\ \E f \in IdFields, p \in IdsBefore, s \in 0 .. MaxSeed :
          setId = [self |-> f, parent_id |-> p, id_seed |-> s, self0 |-> f, seed0 |-> s]
    /\ fSelf = NoField
    /\ fOther = NoField
    /\ fOut = NoOutcome
    /\ pc = "set_id_call"
    /\ n = 0
    /\ vectors = <<>>
    /\ vertices = <<>>
    /\ vertexId = <<>>
    /\ rowId = <<>>
    /\ r = 0
    /\ l = 0
    /\ alphaH = AlphaOne
    /\ BuildIdle
    /\ PruneIdle
    /\ SearchIdle

\* Lines 290-300: self.set_id(parent_id, &mut id_seed) is called and returns.
FieldSetId ==
    /\ pc = "set_id_call"
    /\ LET res == SetId(setId.self, setId.parent_id, setId.id_seed)
       IN  setId' = [setId EXCEPT !.self = res.field, !.id_seed = res.seed]
    /\ pc' = "set_id_returned"
    /\ UNCHANGED <<n, fSelf, fOther, fOut, vertexId, rowId, firstRun, step, vectors, vertices,
                   r, l, alphaH, initI, medoid, passNo, processed, stepId, pId, pV, pst,
                   gsStart, gsQuery, gsK, gsHeap, gsVisited, gsCand, gsP, gsIdx, gsResult>>

NextSetId == FieldSetId

SpecSetId == InitSetId /\ [][NextSetId]_vars

\* The positions of the fields of a tree: the path of child indices from the
\* root, and the field at a path.
RECURSIVE FieldPaths(_)
FieldPaths(f) ==
    {<<>>} \cup UNION {{<<k>> \o p : p \in FieldPaths(f.children[k])} : k \in DOMAIN f.children}

RECURSIVE FieldAt(_, _)
FieldAt(f, p) == IF p = <<>> THEN f ELSE FieldAt(f.children[Head(p)], Tail(p))

PathFront(p) == SubSeq(p, 1, Len(p) - 1)

\* q comes before p in pre-order: q is an ancestor of p, or q branches off to
\* an earlier child.
PreorderBefore(q, p) ==
    /\ q # p
    /\ \/ Len(q) < Len(p) /\ SubSeq(p, 1, Len(q)) = q
       \/ \E i \in 1 .. Len(q) :
             /\ i <= Len(p)
             /\ q[i] < p[i]
             /\ SubSeq(q, 1, i - 1) = SubSeq(p, 1, i - 1)

NegativeBefore(f, p) ==
    {q \in FieldPaths(f) : PreorderBefore(q, p) /\ FieldAt(f, q).id < 0}

NegativePaths(f) == {q \in FieldPaths(f) : FieldAt(f, q).id < 0}

\* C31: after set_id the tree has its shape; a field whose id was negative
\* has the seed value current when pre-order reaches it (the seed at the call
\* plus the number of negative-id fields before it), a field whose id was not
\* negative keeps it, the root's parent_id is the argument and a child's
\* parent_id is its parent's id after the call, and the seed has advanced by
\* the number of negative-id fields; on a tree whose ids were all -1 the ids
\* are pairwise different and the seed has advanced by the number of fields.
C31_SetIdPreorder ==
    pc = "set_id_returned" =>
        LET old   == setId.self0
            new   == setId.self
            paths == FieldPaths(old)
        IN  /\ FieldPaths(new) = paths
            /\ \A p \in paths :
                  /\ FieldAt(old, p).id >= 0 => FieldAt(new, p).id = FieldAt(old, p).id
                  /\ FieldAt(old, p).id < 0 =>
                        FieldAt(new, p).id = setId.seed0 + Cardinality(NegativeBefore(old, p))
                  /\ p = <<>> => FieldAt(new, p).parent_id = setId.parent_id
                  /\ p # <<>> => FieldAt(new, p).parent_id = FieldAt(new, PathFront(p)).id
            /\ setId.id_seed = setId.seed0 + Cardinality(NegativePaths(old))
            /\ (\A p \in paths : FieldAt(old, p).id = -1) =>
                  /\ \A p, q \in paths : p # q => FieldAt(new, p).id # FieldAt(new, q).id
                  /\ setId.id_seed = setId.seed0 + Cardinality(paths)

\* set_id has returned on a tree of ids all -1 in which a grandchild comes
\* before a later child in pre-order, and the seed at the call was positive.
C31_Witness ==
    /\ pc = "set_id_returned"
    /\ setId.seed0 >= 1
    /\ \A p \in FieldPaths(setId.self0) : FieldAt(setId.self0, p).id = -1
    /\ {<<1, 1>>, <<2>>} \subseteq FieldPaths(setId.self0)
    /\ FieldAt(setId.self, <<1, 1>>).id < FieldAt(setId.self, <<2>>).id

=============================================================================
